---- MODULE Spec2Model ----
(***************************************************************************)
(* Model of winapiwrapper::process::Process (src/winapiwrapper/process.rs).*)
(*                                                                         *)
(* A Process owns one native HANDLE.  The model keeps one Process slot,    *)
(* the part of the operating system the handle refers to (the kernel's     *)
(* table of open handles, the target's memory, page protections and loader *)
(* module list) and a record `last` of the call that was just made.  Every *)
(* action overwrites `last`, so a statement about `last.op = X` speaks of  *)
(* exactly the state in which X has just returned.                         *)
(*                                                                         *)
(* Native calls (OpenProcess, CloseHandle, ...) are the environment: each  *)
(* is an operator giving the set of outcomes the platform may produce,     *)
(* following the return-code conventions of the platform API.              *)
(***************************************************************************)
EXTENDS Integers, Sequences, FiniteSets

\* ------------------------------------------------------------------ bounds
MaxInstances == 2   \* Process values constructed in one run
MaxHandles == 2     \* distinct real handle values the kernel can issue
MaxAddr == 2        \* target addresses are 0..MaxAddr (0 is the null address)
MaxLen == 2         \* longest data / buffer passed to the memory calls
MaxModules == 2     \* longest loader module list
MaxStemLen == 3     \* longest module stem asked for

\* ------------------------------------------------------- program constants
NullHandle == 0     \* HANDLE::is_null()
PseudoHandle == -1  \* GetCurrentProcess(): the current-process pseudo-handle

\* --------------------------------------------------------------- the world
RealHandles == {4 * i : i \in 1..MaxHandles}
RunningPids == {1000, 4242}
Pids == {0, 7} \cup RunningPids
AccessMasks == {1024, 2035711}      \* QUERY_INFORMATION, ALL_ACCESS (opaque bits)
SnapFlags == {24}                   \* SNAPMODULE | SNAPMODULE32 (opaque bits)
Bytes == {0, 144}
Protections == {2, 4}               \* PAGE_READONLY, PAGE_READWRITE
PageReadWrite == CHOOSE p \in Protections : \A q \in Protections : q <= p
Addrs == 1..MaxAddr

VARIABLES
    status,      \* "none" | "live" | "dropped" | "panicked": the Process slot
    origin,      \* "none" | "from_pid" | "from_current": how it was constructed
    handle,      \* Process.handle
    targetPid,   \* the process the handle refers to
    instances,   \* Process values constructed so far
    kernel,      \* handle values currently open in the kernel's handle table
    closed,      \* handle values ever passed to CloseHandle
    closeCalls,  \* CloseHandle calls made with this Process's handle
    staleUse,    \* a native call was issued on a handle that is not open
    failedOps,   \* some operation on this Process returned Err
    mem,         \* target memory: Addrs -> Bytes
    prot,        \* protection of each address's page: Addrs -> Protections
    lastWrite,   \* last successful write not mutated since: <<>> or <<[addr, data]>>
    modules,     \* loader module list of the target, in snapshot order
    last         \* the call just made

vars == <<status, origin, handle, targetPid, instances, kernel, closed,
          closeCalls, staleUse, failedOps, mem, prot, lastWrite, modules, last>>

lifeVars == <<status, origin, handle, targetPid, instances, kernel, closed, closeCalls>>
worldVars == <<mem, prot, lastWrite, modules>>

\* Result<T, Error>
Ok(v) == [ok |-> TRUE, val |-> v, err |-> ""]
Err(msg) == [ok |-> FALSE, val |-> <<>>, err |-> msg]

\* The record of a call: its name, its Result, its inputs, what was observed.
Call(op, res, args, obs) == [op |-> op, res |-> res, args |-> args, obs |-> obs]

\* A native call on handle h touches a handle that is not open.
Stale(h) == h # PseudoHandle /\ h \notin kernel


\* ------------------------------------------------------------ construction
\* OpenProcess(access.bits(), inherit as i32, pid): NULL on failure (no such
\* process, or access denied), otherwise a handle value not currently open.
OpenProcess(p, access, inherit) ==
    IF p \in RunningPids THEN {NullHandle} \cup (RealHandles \ kernel) ELSE {NullHandle}

from_pid_unchecked(h) == Ok(h)

\* if handle.is_null() { Err(..) } else { Ok(Self { handle }) }
from_pid_result(h) ==
    IF h = NullHandle THEN Err("OpenProcess returned NULL") ELSE Ok(h)

\* A Process value comes into being around handle h.
Construct(h, how, p) ==
    /\ status' = "live"
    /\ origin' = how
    /\ handle' = h
    /\ targetPid' = p
    /\ instances' = instances + 1
    /\ closeCalls' = 0
    /\ failedOps' = FALSE

from_pid(p, access, inherit) ==
    /\ status \in {"none", "dropped"}
    /\ instances < MaxInstances
    /\ \E h \in OpenProcess(p, access, inherit) :
         LET r == from_pid_result(h) IN
         /\ kernel' = IF h = NullHandle THEN kernel ELSE kernel \cup {h}
         /\ IF r.ok
              THEN Construct(r.val, "from_pid", p)
              ELSE UNCHANGED <<status, origin, handle, targetPid, instances,
                               closeCalls, failedOps>>
         /\ last' = Call("from_pid", r, <<p, access, inherit>>, [ret |-> h])
    /\ UNCHANGED <<closed, staleUse, mem, prot, lastWrite, modules>>

GetCurrentProcess == PseudoHandle

\* unsafe fn from_handle(handle) -> Self { Self { handle } }
from_handle(h) == h

from_current ==
    /\ status \in {"none", "dropped"}
    /\ instances < MaxInstances
    /\ \E p \in RunningPids : Construct(from_handle(GetCurrentProcess), "from_current", p)
    /\ last' = Call("from_current", Ok(PseudoHandle), <<>>, [ret |-> PseudoHandle])
    /\ UNCHANGED <<kernel, closed, staleUse, mem, prot, lastWrite, modules>>

\* ------------------------------------------------------------- destruction
is_handle_closable_inverted(h) == h = PseudoHandle
is_handle_closable_null(h) == h # NullHandle

\* self.handle as isize != -1
is_handle_closable(h) == h # PseudoHandle

\* CloseHandle(h): non-zero on success; zero when the handle is not open, or
\* when the kernel refuses to close it (the handle then stays open).
CloseHandle(h) == IF h \in kernel THEN {0, 1} ELSE {0}

\* HandleOwner::close_handle, given what CloseHandle returned.
close_handle_result(ret) ==
    IF ret = 0 THEN Err("CloseHandle failed") ELSE Ok(<<>>)

DropOutcomeIgnoring(r) == "dropped"

\* self.close_handle().unwrap()
DropOutcome(r) == IF r.ok THEN "dropped" ELSE "panicked"

drop ==
    /\ status = "live"
    /\ IF is_handle_closable(handle)
         THEN \E ret \in CloseHandle(handle) :
                LET r == close_handle_result(ret) IN
                /\ kernel' = IF ret = 0 THEN kernel ELSE kernel \ {handle}
                /\ closed' = closed \cup {handle}
                /\ closeCalls' = closeCalls + 1
                /\ staleUse' = (staleUse \/ Stale(handle))
                /\ status' = DropOutcome(r)
                /\ last' = Call("drop", r, <<>>, [closable |-> TRUE, ret |-> ret])
         ELSE /\ status' = DropOutcome(Ok(<<>>))
              /\ last' = Call("drop", Ok(<<>>), <<>>, [closable |-> FALSE, ret |-> 1])
              /\ UNCHANGED <<kernel, closed, closeCalls, staleUse>>
    /\ UNCHANGED <<origin, handle, targetPid, instances, failedOps, mem, prot,
                   lastWrite, modules>>

\* ------------------------------------------------------------------ queries
\* An operation on a live Process that returned r; `native` tells whether a
\* native call was issued on the Process's handle.
Returned(call, native) ==
    /\ last' = call
    /\ staleUse' = (staleUse \/ (native /\ Stale(handle)))
    /\ failedOps' = (failedOps \/ ~call.res.ok)
    /\ UNCHANGED lifeVars

\* GetProcessId(handle): the process's id, or zero on failure.
GetProcessId(h) == IF Stale(h) THEN {0} ELSE {0, targetPid}

pid_result(ret) ==
    IF ret = 0 THEN Err("GetProcessId returned NULL") ELSE Ok(ret)

pid ==
    /\ status = "live"
    /\ \E ret \in GetProcessId(handle) :
         Returned(Call("pid", pid_result(ret), <<>>, [ret |-> ret]), TRUE)
    /\ UNCHANGED worldVars

\* Snapshot::from_pid(pid, flags): the enumeration handle may be refused; a
\* Snapshot holds the module records as they are when it is taken.
Snapshot_from_pid(p, flags, created) ==
    IF created
    THEN Ok([pid |-> p, flags |-> flags, entries |-> modules])
    ELSE Err("CreateToolhelp32Snapshot failed")

\* Snapshot::from_pid(self.pid()?, flags)
snapshot_result(pidRet, flags, created) ==
    LET r == pid_result(pidRet) IN
    IF r.ok THEN Snapshot_from_pid(r.val, flags, created) ELSE r

snapshot(flags) ==
    /\ status = "live"
    /\ \E ret \in GetProcessId(handle), created \in BOOLEAN :
         Returned(Call("snapshot", snapshot_result(ret, flags, created), <<flags>>,
                       [ret |-> ret]), TRUE)
    /\ UNCHANGED worldVars

\* ------------------------------------------------------------------- memory
Region(address, len) == address .. (address + len - 1)

\* WriteProcessMemory: all of the region must be writable, else the call
\* fails and writes nothing.
WriteProcessMemory(h, address, data) ==
    LET reg == Region(address, Len(data))
        failure == [ret |-> 0, n |-> 0, mem |-> mem]
        written == [a \in Addrs |-> IF a \in reg THEN data[a - address + 1] ELSE mem[a]]
    IN  IF ~Stale(h) /\ reg \subseteq Addrs /\ \A a \in reg : prot[a] = PageReadWrite
        THEN {failure, [ret |-> 1, n |-> Len(data), mem |-> written]}
        ELSE {failure}

\* ReadProcessMemory: fills the caller's buffer from the region.
ReadProcessMemory(h, address, buffer) ==
    LET reg == Region(address, Len(buffer))
        failure == [ret |-> 0, n |-> 0, buffer |-> buffer]
        filled == [i \in 1..Len(buffer) |-> mem[address + i - 1]]
    IN  IF ~Stale(h) /\ reg \subseteq Addrs
        THEN {failure, [ret |-> 1, n |-> Len(buffer), buffer |-> filled]}
        ELSE {failure}

\* if address == 0 { return Err(..) }
write_memory_precheck(data, address) ==
    IF address = 0 THEN <<Err("Address to write to is null")>> ELSE <<>>

write_memory_result(ret, n) ==
    IF ret = 0 THEN Err("WriteProcessMemory failed") ELSE Ok(n)

write_memory(data, address) ==
    /\ status = "live"
    /\ LET pre == write_memory_precheck(data, address) IN
       IF pre # <<>>
       THEN /\ Returned(Call("write_memory", pre[1], <<data, address>>,
                             [native |-> FALSE, touched |-> FALSE]), FALSE)
            /\ UNCHANGED <<mem, lastWrite>>
       ELSE \E o \in WriteProcessMemory(handle, address, data) :
            /\ mem' = o.mem
            /\ lastWrite' = IF o.ret # 0 /\ data # <<>>
                            THEN <<[addr |-> address, data |-> data]>>
                            ELSE lastWrite
            /\ Returned(Call("write_memory", write_memory_result(o.ret, o.n),
                             <<data, address>>,
                             [native |-> TRUE, touched |-> o.mem # mem]), TRUE)
    /\ UNCHANGED <<prot, modules>>

read_memory_precheck_address_only(buffer, address) ==
    IF address = 0 THEN <<Err("Address to read from is null")>> ELSE <<>>

\* if address == 0 { return Err(..) } else if buffer.is_empty() { return Err(..) }
read_memory_precheck(buffer, address) ==
    IF address = 0 THEN <<Err("Address to read from is null")>>
    ELSE IF buffer = <<>> THEN <<Err("Buffer length is zero")>>
    ELSE <<>>

read_memory_result(ret, n) ==
    IF ret = 0 THEN Err("ReadProcessMemory failed") ELSE Ok(n)

ReadLenShort(buffer) == SubSeq(buffer, 1, Len(buffer) - 1)

\* buffer.as_ptr(), buffer.len(): the bytes handed to ReadProcessMemory
ReadTarget(buffer) == buffer

read_memory(buffer, address) ==
    /\ status = "live"
    /\ LET pre == read_memory_precheck(buffer, address) IN
       IF pre # <<>>
       THEN Returned(Call("read_memory", pre[1], <<buffer, address>>,
                          [native |-> FALSE, touched |-> FALSE, buffer |-> buffer]),
                     FALSE)
       ELSE \E o \in ReadProcessMemory(handle, address, ReadTarget(buffer)) :
            Returned(Call("read_memory", read_memory_result(o.ret, o.n),
                          <<buffer, address>>,
                          [native |-> TRUE, touched |-> FALSE,
                           buffer |-> o.buffer \o SubSeq(buffer, Len(o.buffer) + 1, Len(buffer))]),
                     TRUE)
    /\ UNCHANGED worldVars

\* VirtualProtectEx: on success stores the first page's previous protection
\* through the out pointer and protects the region as asked; on failure it
\* leaves both alone.
VirtualProtectEx(h, address, size, protect, old_protect) ==
    LET reg == Region(address, size)
        failure == [ret |-> 0, old |-> old_protect, prot |-> prot]
    IN  IF ~Stale(h) /\ size > 0 /\ reg \subseteq Addrs
        THEN {failure,
              [ret |-> 1, old |-> prot[address],
               prot |-> [a \in Addrs |-> IF a \in reg THEN protect ELSE prot[a]]]}
        ELSE {failure}

old_protect_before_call(initial, out) == initial

\* (VirtualProtectEx(.., &mut old_protect), old_protect): the tuple's second
\* field is read after the call has stored through the pointer.
old_protect_read(initial, out) == out

virtual_protect_result(ret, old_protect) ==
    IF ret # 0 THEN Ok(old_protect) ELSE Err("VirtualProtectEx returned NULL")

virtual_protect(address, size, protect) ==
    /\ status = "live"
    /\ \E o \in VirtualProtectEx(handle, address, size, protect, 0) :
         /\ prot' = o.prot
         /\ Returned(Call("virtual_protect",
                          virtual_protect_result(o.ret, old_protect_read(0, o.old)),
                          <<address, size, protect>>,
                          [ret |-> o.ret,
                           before |-> IF address \in Addrs THEN prot[address] ELSE 0]),
                     TRUE)
    /\ UNCHANGED <<mem, lastWrite, modules>>

\* The target process stores byte b at address a on its own.
TargetStores(a, b) ==
    /\ mem[a] # b
    /\ mem' = [mem EXCEPT ![a] = b]
    /\ lastWrite' = IF lastWrite # <<>>
                       /\ a \in Region(lastWrite[1].addr, Len(lastWrite[1].data))
                    THEN <<>> ELSE lastWrite
    /\ last' = Call("target_stores", Ok(<<>>), <<a, b>>, <<>>)
    /\ UNCHANGED <<lifeVars, staleUse, failedOps, prot, modules>>


\* ------------------------------------------------------------ module lookup
\* Text is a sequence of one-character strings.  InvalidByte stands for a
\* byte that is not valid UTF-8; it occurs only in native text (szModule).
InvalidByte == "0xFF"
StemChars == {"a", "."}
DotDll == <<".", "d", "l", "l">>
DotDLL == <<".", "D", "L", "L">>

SeqsUpTo(S, n) == UNION {[1..k -> S] : k \in 0..n}

\* u8::to_ascii_lowercase / to_ascii_uppercase
to_ascii_lowercase_char(c) ==
    CASE c = "A" -> "a" [] c = "D" -> "d" [] c = "L" -> "l" [] OTHER -> c
to_ascii_uppercase_char(c) ==
    CASE c = "a" -> "A" [] c = "d" -> "D" [] c = "l" -> "L" [] OTHER -> c
to_ascii_lowercase(s) == [i \in 1..Len(s) |-> to_ascii_lowercase_char(s[i])]
to_ascii_uppercase(s) == [i \in 1..Len(s) |-> to_ascii_uppercase_char(s[i])]

\* str::from_utf8 / CStr::to_str / Path::to_str: Some(text) or None
to_str(s) == IF \E i \in 1..Len(s) : s[i] = InvalidByte THEN <<>> ELSE <<s>>

\* Path::file_name of a path without separators: None for "", "." and "..".
file_name(s) == IF s \in {<<>>, <<".">>, <<".", ".">>} THEN <<>> ELSE <<s>>

\* Index of the last '.', or 0.
LastDot(s) ==
    IF \E i \in 1..Len(s) : s[i] = "."
    THEN CHOOSE i \in 1..Len(s) : s[i] = "." /\ \A j \in (i + 1)..Len(s) : s[j] # "."
    ELSE 0

\* Path::file_stem: the file name up to its last '.', the whole name when it
\* has no '.' or only a leading one.
file_stem(s) ==
    LET d == LastDot(s) IN IF d <= 1 THEN s ELSE SubSeq(s, 1, d - 1)

\* Path::with_extension: REPLACES the extension of the file name (everything
\* after its last '.'), or adds one when it has none; a path without a file
\* name is left as it is.
with_extension(s, ext) ==
    IF file_name(s) = <<>> THEN s
    ELSE file_stem(s) \o (IF ext = <<>> THEN <<>> ELSE <<".">> \o ext)

\* Path::new(name).with_extension("dll").to_str() ... ?.to_ascii_lowercase()
normalize(name) ==
    LET t == to_str(with_extension(name, <<"d", "l", "l">>)) IN
    IF t = <<>> THEN Err("Failed to construct Path for module")
    ELSE Ok(to_ascii_lowercase(t[1]))

\* SnapshotFlags::TH32CS_SNAPMODULE | SnapshotFlags::TH32CS_SNAPMODULE32
ModuleSnapFlags == CHOOSE f \in SnapFlags : TRUE

\* Snapshot::module_entries(pid): the records captured by the snapshot, in
\* snapshot order.
module_entries(snap, p) == snap.entries

scan_entry_skip_undecodable(entry, name) ==
    LET t == to_str(entry.szModule) IN
    IF t # <<>> /\ to_ascii_lowercase(t[1]) = name THEN <<Ok(entry)>> ELSE <<>>

\* The filter_map closure: Some(Err) for an undecodable display name,
\* Some(Ok(entry)) for a match, None otherwise.
scan_entry(entry, name) ==
    LET t == to_str(entry.szModule) IN
    IF t = <<>> THEN <<Err("Failed to construct CStr from MODULEENTRY32.szModule")>>
    ELSE IF to_ascii_lowercase(t[1]) = name THEN <<Ok(entry)>>
    ELSE <<>>

\* .filter_map(closure).next(): the closure's first Some, scanning lazily.
RECURSIVE filter_map_next(_, _, _)
filter_map_next(entries, name, i) ==
    IF i > Len(entries) THEN <<>>
    ELSE LET x == scan_entry(entries[i], name) IN
         IF x # <<>> THEN x ELSE filter_map_next(entries, name, i + 1)

lookup_result_none_is_error(found) ==
    IF found = <<>> THEN Err("module not found")
    ELSE IF found[1].ok THEN Ok(<<found[1].val>>)
    ELSE found[1]

\* Ok(match entry { Some(entry) => Some(entry?), None => None })
lookup_result(found) ==
    IF found = <<>> THEN Ok(<<>>)
    ELSE IF found[1].ok THEN Ok(<<found[1].val>>)
    ELSE found[1]

module_entry_by_name_result(name, ret1, created, ret2) ==
    LET n == normalize(name) IN
    IF ~n.ok THEN n ELSE
    LET s == snapshot_result(ret1, ModuleSnapFlags, created) IN
    IF ~s.ok THEN s ELSE
    LET p == pid_result(ret2) IN
    IF ~p.ok THEN p ELSE
    lookup_result(filter_map_next(module_entries(s.val, p.val), n.val, 1))

module_entry_by_name(name) ==
    /\ status = "live"
    /\ \E ret1 \in GetProcessId(handle) :
       \E created \in IF ret1 = 0 THEN {FALSE} ELSE BOOLEAN :
       \E ret2 \in IF created THEN GetProcessId(handle) ELSE {0} :
         Returned(Call("module_entry_by_name",
                       module_entry_by_name_result(name, ret1, created, ret2),
                       <<name>>,
                       [ret1 |-> ret1, created |-> created, ret2 |-> ret2]),
                  TRUE)
    /\ UNCHANGED worldVars

\* Display names the loader may hold.
ModuleNames ==
    { <<"a">> \o DotDll, <<"A">> \o DotDLL, <<"a", ".", "a">> \o DotDll,
      <<InvalidByte>> \o DotDll }

\* The target loads a module: a record with a base of its own joins the list.
TargetLoads(nm) ==
    /\ Len(modules) < MaxModules
    /\ modules' = Append(modules, [szModule |-> nm, modBaseAddr |-> Len(modules) + 1])
    /\ last' = Call("target_loads", Ok(<<>>), <<nm>>, <<>>)
    /\ UNCHANGED <<lifeVars, staleUse, failedOps, mem, prot, lastWrite>>

\* Names asked for: each stem, in both cases, with and without the suffix.
Stems ==
    {s \in SeqsUpTo(StemChars, MaxStemLen) :
        s # <<>> /\ s[1] # "." /\ s[Len(s)] # "."}
Variants(s) ==
    {s, to_ascii_uppercase(s), s \o DotDll, to_ascii_uppercase(s) \o DotDLL}
Names == UNION {Variants(s) : s \in Stems}

\* ----------------------------------------------------------- specifications
\* Buffers a caller passes to read_memory: zero-filled, of every length.
Buffers == {[i \in 1..k |-> 0] : k \in 0..MaxLen}

InitWorld ==
    /\ mem = [a \in Addrs |-> 0]
    /\ prot = [a \in Addrs |-> PageReadWrite]
    /\ lastWrite = <<>>
    /\ last = Call("init", Ok(<<>>), <<>>, <<>>)
    /\ closed = {}
    /\ closeCalls = 0
    /\ staleUse = FALSE
    /\ failedOps = FALSE

\* No Process yet.
Init ==
    /\ InitWorld
    /\ status = "none"
    /\ origin = "none"
    /\ handle = NullHandle
    /\ targetPid = 0
    /\ instances = 0
    /\ kernel = {}
    /\ modules = <<[szModule |-> <<"a">> \o DotDll, modBaseAddr |-> 1]>>

\* A Process just returned by a successful from_pid.
InitLive ==
    /\ InitWorld
    /\ status = "live"
    /\ origin = "from_pid"
    /\ handle = CHOOSE h \in RealHandles : \A g \in RealHandles : h <= g
    /\ targetPid = 4242
    /\ instances = 1
    /\ kernel = {handle}
    /\ modules = <<>>

Next ==
    \/ \E p \in Pids, access \in AccessMasks, inherit \in BOOLEAN :
         from_pid(p, access, inherit)
    \/ from_current
    \/ pid
    \/ \E flags \in SnapFlags : snapshot(flags)
    \/ \E address \in 0..1 : write_memory(<<144>>, address)
    \/ \E buffer \in {<<>>, <<0>>}, address \in 0..1 : read_memory(buffer, address)
    \/ \E protect \in Protections : virtual_protect(1, 1, protect)
    \/ module_entry_by_name(<<"a">>)
    \/ drop

NextMem ==
    \/ \E data \in SeqsUpTo(Bytes, MaxLen), address \in 0..MaxAddr :
         write_memory(data, address)
    \/ \E buffer \in Buffers, address \in 0..MaxAddr :
         read_memory(buffer, address)
    \/ \E address \in 0..MaxAddr, size \in 0..MaxLen, protect \in Protections :
         virtual_protect(address, size, protect)
    \/ \E a \in Addrs, b \in Bytes : TargetStores(a, b)

NextModule ==
    \/ \E name \in Names : module_entry_by_name(name)
    \/ \E nm \in ModuleNames : TargetLoads(nm)

Spec == Init /\ [][Next]_vars
SpecMem == InitLive /\ [][NextMem]_vars
SpecModule == InitLive /\ [][NextModule]_vars


\* ------------------------------------------------------------------ claims
Released == status \in {"dropped", "panicked"}

\* C1: a Process obtained from from_pid has CloseHandle invoked on its handle
\* exactly once, at drop: not while it is live (whatever operations were
\* called on it and whether they failed), not zero times and not twice once it
\* is dropped; and no native call is ever issued on a handle that is not open.
C1_ClosedExactlyOnceAtDrop ==
    /\ (origin = "from_pid" /\ status = "live") => (closeCalls = 0 /\ handle \in kernel)
    /\ (origin = "from_pid" /\ Released) => closeCalls = 1
    /\ ~staleUse

\* A from_pid Process was dropped after one of its operations had failed.
C1_Witness ==
    /\ origin = "from_pid" /\ status = "dropped" /\ last.op = "drop"
    /\ failedOps /\ closeCalls = 1 /\ handle \notin kernel

\* C2: from_current never fails; its Process holds the pseudo-handle -1, which
\* is never closable and never passed to CloseHandle, drop included.
C2_CurrentNeverClosed ==
    /\ last.op = "from_current" => (last.res.ok /\ status = "live")
    /\ (origin = "from_current" /\ status # "none") =>
          /\ handle = PseudoHandle
          /\ ~is_handle_closable(handle)
          /\ closeCalls = 0
          /\ status # "panicked"
    /\ PseudoHandle \notin closed

\* The Process wrapping the pseudo-handle has just been dropped.
C2_Witness ==
    origin = "from_current" /\ status = "dropped" /\ last.op = "drop"

\* C3: when OpenProcess yields NULL (as it does for every pid that is not
\* running) from_pid returns Err and no Process exists afterwards, so NULL is
\* never closed; when from_pid returns Ok the Process holds exactly the
\* non-null handle OpenProcess returned.
C3_FromPidNullIsError ==
    /\ last.op = "from_pid" =>
          /\ last.args[1] \notin RunningPids => last.obs.ret = NullHandle
          /\ last.obs.ret = NullHandle => (~last.res.ok /\ status # "live")
          /\ last.res.ok =>
                /\ last.obs.ret # NullHandle
                /\ status = "live" /\ origin = "from_pid"
                /\ handle = last.obs.ret
    /\ NullHandle \notin closed

\* from_pid has just failed for a pid that is not running.
C3_Witness ==
    /\ last.op = "from_pid" /\ last.args[1] \notin RunningPids
    /\ ~last.res.ok /\ status = "none"

RejectedBeforeNative ==
    ~last.res.ok /\ ~last.obs.native /\ ~last.obs.touched

\* C4: write_memory at address 0 (any data, empty included), read_memory at
\* address 0 (any buffer) and read_memory into an empty buffer (any address)
\* return Err without a native call, leaving target memory and buffer alone.
C4_PreconditionsRejected ==
    /\ (last.op = "write_memory" /\ last.args[2] = 0) => RejectedBeforeNative
    /\ (last.op = "read_memory" /\ (last.args[2] = 0 \/ last.args[1] = <<>>)) =>
          (RejectedBeforeNative /\ last.obs.buffer = last.args[1])

\* read_memory was just called with an empty buffer at a non-null address.
C4_Witness ==
    /\ last.op = "read_memory" /\ last.args[1] = <<>> /\ last.args[2] # 0
    /\ ~last.res.ok

\* C5: reading back, with a buffer of the same length and at the same address,
\* what a successful write_memory stored and nothing has mutated since, fills
\* the buffer with the written data.
C5_WriteReadRoundTrip ==
    (/\ last.op = "read_memory" /\ last.res.ok
     /\ lastWrite # <<>>
     /\ lastWrite[1].addr = last.args[2]
     /\ Len(lastWrite[1].data) = Len(last.args[1]))
    => last.obs.buffer = lastWrite[1].data

\* Two bytes, one of them 0x90, written and read back into a zeroed buffer.
C5_Witness ==
    /\ last.op = "read_memory" /\ last.res.ok
    /\ lastWrite # <<>>
    /\ lastWrite[1].addr = last.args[2]
    /\ Len(lastWrite[1].data) = 2 /\ Len(last.args[1]) = 2
    /\ \E i \in 1..2 : lastWrite[1].data[i] = 144
    /\ last.obs.buffer = lastWrite[1].data

\* C6: when a closable handle's CloseHandle reports failure at drop, the drop
\* panics; when it succeeds, or the handle is not closable, the drop completes.
C6_CloseFailureIsFatal ==
    last.op = "drop" =>
       /\ (last.obs.closable /\ last.obs.ret = 0) => status = "panicked"
       /\ (~last.obs.closable \/ last.obs.ret # 0) => status = "dropped"

\* CloseHandle has just reported failure for a closable handle.
C6_Witness ==
    last.op = "drop" /\ last.obs.closable /\ last.obs.ret = 0 /\ status = "panicked"

IsLookup == last.op = "module_entry_by_name"
NativesOk == last.obs.ret1 # 0 /\ last.obs.created /\ last.obs.ret2 # 0
Undecodable(e) == to_str(e.szModule) = <<>>
Matches(e, name) ==
    ~Undecodable(e) /\ to_ascii_lowercase(e.szModule) = normalize(name).val
MatchAt(i) == Matches(modules[i], last.args[1])
FirstMatch == CHOOSE i \in 1..Len(modules) : MatchAt(i) /\ \A j \in 1..(i - 1) : ~MatchAt(j)
DecodeError == ~last.res.ok /\ last.res.err = "Failed to construct CStr from MODULEENTRY32.szModule"

\* C7 as stated: module_entry_by_name fails whenever any entry of the snapshot
\* has an undecodable display name, wherever that entry stands.
C7_AnyUndecodableFails ==
    (IsLookup /\ \E i \in 1..Len(modules) : Undecodable(modules[i])) => ~last.res.ok

\* C7 as amended: module_entry_by_name fails when an entry with an undecodable
\* display name stands before every matching entry (or nothing matches); when
\* a matching entry stands before every undecodable one, the scan stops there
\* and that entry is returned.
C7_UndecodableBeforeMatchFails ==
    IsLookup =>
       /\ (\E i \in 1..Len(modules) :
              Undecodable(modules[i]) /\ \A j \in 1..(i - 1) : ~MatchAt(j))
          => (~last.res.ok /\ (NativesOk => DecodeError))
       /\ (/\ NativesOk
           /\ \E i \in 1..Len(modules) :
                 MatchAt(i) /\ \A j \in 1..(i - 1) : ~Undecodable(modules[j]))
          => last.res = Ok(<<modules[FirstMatch]>>)

\* An undecodable entry stands before a matching one and the lookup failed.
C7_Witness ==
    /\ IsLookup /\ NativesOk /\ Len(modules) = 2
    /\ Undecodable(modules[1]) /\ MatchAt(2)
    /\ DecodeError

\* C8: not finding the module is not an error: module_entry_by_name returns
\* Err only for a decode failure or a snapshot/pid failure; otherwise it
\* returns Ok(None) when no entry's lowercased display name equals the
\* normalized name, and the first matching entry in snapshot order when one
\* does.
C8_NoneWhenNoMatch ==
    IsLookup =>
       /\ ~last.res.ok =>
             \/ last.obs.ret1 = 0 \/ ~last.obs.created \/ last.obs.ret2 = 0
             \/ (DecodeError /\ \E i \in 1..Len(modules) : Undecodable(modules[i]))
       /\ (/\ NativesOk
           /\ \A i \in 1..Len(modules) : ~Undecodable(modules[i]) /\ ~MatchAt(i))
          => last.res = Ok(<<>>)
       /\ (last.res.ok /\ \A i \in 1..Len(modules) : ~MatchAt(i))
          => last.res.val = <<>>
       /\ (last.res.ok /\ \E i \in 1..Len(modules) : MatchAt(i))
          => last.res.val = <<modules[FirstMatch]>>

\* Modules are loaded, none matches the name, and the lookup returned Ok(None).
C8_Witness ==
    /\ IsLookup /\ NativesOk /\ Len(modules) = 2
    /\ \A i \in 1..Len(modules) : ~Undecodable(modules[i]) /\ ~MatchAt(i)
    /\ last.res = Ok(<<>>)

\* C9: against the same snapshot, asking for a module stem in lower case, in
\* upper case, with ".dll" or with ".DLL" gives one and the same result.
C9_CaseAndSuffixInsensitive ==
    (IsLookup /\ NativesOk) =>
       \A s \in Stems : last.args[1] \in Variants(s) =>
          \A v \in Variants(s) :
             last.res = module_entry_by_name_result(v, last.obs.ret1,
                                                    last.obs.created, last.obs.ret2)

IsProtect == last.op = "virtual_protect"

\* C10: when VirtualProtectEx reports success, virtual_protect returns the
\* protection in effect (at the region's first page) just before the call, not
\* the one asked for, and leaves the region with the new one; when it reports failure, virtual_protect returns Err and no value.
C10_ReturnsPreviousProtection ==
    IsProtect =>
       /\ last.obs.ret # 0 =>
             /\ last.res = Ok(last.obs.before)
             /\ \A a \in Region(last.args[1], last.args[2]) : prot[a] = last.args[3]
       /\ last.obs.ret = 0 => (~last.res.ok /\ last.res.val = <<>>)

\* A successful call that asked for a protection other than the one in effect.
C10_Witness ==
    /\ IsProtect /\ last.obs.ret # 0
    /\ last.obs.before # last.args[3]
    /\ last.res = Ok(last.obs.before)
    /\ prot[last.args[1]] = last.args[3]

====
